---- MODULE Spec2Model ----
(***************************************************************************)
(* Checkpoint lifecycle of cyborg-sagemaker: CheckpointCallback and        *)
(* LatestCheckpointCallback (training/callbacks/checkpoint_callback.py)    *)
(* driven by the trainer's step loop that train.py main starts.            *)
(*                                                                         *)
(* A file of the checkpoint directory is a record                          *)
(*   [prefix, final, step]  ~  "<prefix>_<step>.zip" / "<prefix>_final.zip"*)
(* and the directory is the sequence of its files in st_mtime order,       *)
(* oldest first (modification times are taken to be distinct).             *)
(*                                                                         *)
(* The other components have their own specifications over their own       *)
(* state: SmSpec (SageMakerCallback), LnSpec (launch_training.py main),    *)
(* BdSpec (build_training_job_config) and CfSpec (config_loader.py).       *)
(* A component that a specification does not run stays "off".              *)
(***************************************************************************)
EXTENDS Integers, Sequences, FiniteSets, TLC

\* ---------------------------------------------------------------- bounds
MaxCalls == 120          \* on_step calls per run (total_steps / n_envs)
MaxRuns == 2             \* processes started on the same checkpoint directory
MaxKeep == 2             \* largest keep_last_n explored
MaxUnlinkFailures == 1   \* unlink() calls that may fail in one eviction pass

\* ------------------------------------------------------ program constants
CleanupPeriod == 100
DefaultKeepLastN == 5
DefaultNamePrefix == "checkpoint"
GlobPrefix == "checkpoint"

\* ------------------------------------------------------------ input sets
NamePrefixes == {DefaultNamePrefix, "model"}
SaveFreqs == {20, 50}
EnvCounts == {1, 2}
KeepChoices == 0..MaxKeep

VARIABLES
    name_prefix,        \* CheckpointCallback.name_prefix
    save_freq,          \* CheckpointCallback.save_freq
    s3_enabled,         \* CheckpointCallback.s3_client and s3_bucket both set
    n_envs,             \* parallelism of the vectorized environment
    use_latest,         \* a LatestCheckpointCallback follows in the callback list
    keep_last_n,        \* LatestCheckpointCallback.keep_last_n
    run,                \* number of the process using the directory
    phase,              \* "training" | "ended" | "failed"
    pc,                 \* next hook of the current step: "ckpt" | "latest"
    n_calls,            \* BaseCallback.n_calls
    num_timesteps,      \* BaseCallback.num_timesteps (global step)
    checkpoints_saved,  \* CheckpointCallback.checkpoints_saved
    disk,               \* checkpoint directory, oldest file first
    op,                 \* the hook that ran last
    hook_ret,           \* "none" | "true" | "raised"
    fail_site,          \* what raised: "none" | "save" | "final_save" | "upload" | "trainer"
    saved_path,         \* << >> or <<file>> written by the last hook
    upload_log,         \* outcomes of the upload_file calls of the last hook
    pre_disk,           \* directory before the last hook that touched it
    evict_cands,        \* checkpoints[keep_last_n:] of the last eviction pass
    evict_tried,        \* files the last eviction pass called unlink() on
    evict_failed,       \* files whose unlink() raised in the last pass
    final_saved,        \* this run has written its final checkpoint
    last_periodic_step, \* step count of this run's latest periodic checkpoint, 0 if none
    upload_error_seen,  \* an upload_file call of this run has raised
    sm,                 \* SageMakerCallback: its fields and the lines of the last hook
    ln,                 \* launch_training.py: arguments, external storage, flow position
    bd,                 \* build_training_job_config: arguments and the descriptor built
    cf,                 \* config_loader.py, env_factory.py: arguments and results of the function applied
    tr                  \* train.py: command line, container files, flow position

cfg == <<name_prefix, save_freq, s3_enabled, n_envs, use_latest, keep_last_n>>
hook == <<op, hook_ret, fail_site, saved_path, upload_log, pre_disk,
          evict_cands, evict_tried, evict_failed>>
vars == <<name_prefix, save_freq, s3_enabled, n_envs, use_latest, keep_last_n,
          run, phase, pc, n_calls, num_timesteps, checkpoints_saved, disk,
          op, hook_ret, fail_site, saved_path, upload_log, pre_disk,
          evict_cands, evict_tried, evict_failed, final_saved, last_periodic_step,
          upload_error_seen, sm, ln, bd, cf, tr>>

ckptVars == <<name_prefix, save_freq, s3_enabled, n_envs, use_latest, keep_last_n,
              run, phase, pc, n_calls, num_timesteps, checkpoints_saved, disk,
              op, hook_ret, fail_site, saved_path, upload_log, pre_disk,
              evict_cands, evict_tried, evict_failed, final_saved,
              last_periodic_step, upload_error_seen>>

\* ------------------------------------------------------ sequence helpers
Range(s) == {s[i] : i \in DOMAIN s}

RECURSIVE Filter(_, _)
Filter(s, keep) ==
    IF s = << >> THEN << >>
    ELSE IF Head(s) \in keep THEN <<Head(s)>> \o Filter(Tail(s), keep)
         ELSE Filter(Tail(s), keep)

RECURSIVE Reverse(_)
Reverse(s) == IF s = << >> THEN << >> ELSE Reverse(Tail(s)) \o <<Head(s)>>

\* ----------------------------------------------------- CheckpointCallback
\* f"{name_prefix}_{num_timesteps}.zip"
GetCheckpointPath(prefix, timesteps) ==
    [prefix |-> prefix, final |-> FALSE, step |-> timesteps]

FinalCheckpointPath_StepNamed(prefix) ==
    [prefix |-> prefix, final |-> FALSE, step |-> num_timesteps]

\* f"{name_prefix}_final.zip"
FinalCheckpointPath(prefix) ==
    [prefix |-> prefix, final |-> TRUE, step |-> 0]

\* model.save(path): creates or overwrites the file, which becomes the newest
WriteFile(d, f) == Filter(d, Range(d) \ {f}) \o <<f>>

\* if self.n_calls % self.save_freq == 0
ShouldSave(calls, freq) == calls % freq = 0

UploadToS3_NoCatch(enabled, succeeds) ==
    IF ~enabled THEN "skipped"
    ELSE IF succeeds THEN "ok" ELSE "raised"

\* _upload_to_s3: False without a client, True on success, False when
\* upload_file raises (the exception is caught and logged)
UploadToS3(enabled, succeeds) ==
    IF ~enabled THEN "skipped"
    ELSE IF succeeds THEN "ok" ELSE "failed"

UploadAttempts_Retry(enabled, succeeds) ==
    IF enabled THEN (IF succeeds THEN <<"ok">> ELSE <<"error", "error">>) ELSE << >>

\* if self.s3_client and self.s3_bucket: self._upload_to_s3(path)
\* the upload_file calls one hook makes after a successful local save, each
\* with what the call did: "ok" or "error" (it raised)
UploadAttempts(enabled, succeeds) ==
    IF enabled THEN <<IF succeeds THEN "ok" ELSE "error">> ELSE << >>

CountAfterSave_Early(count, saveOk) == count + 1

\* self.model.save(...) ; self.checkpoints_saved += 1
CountAfterSave(count, saveOk) == IF saveOk THEN count + 1 ELSE count

\* ----------------------------------------------- LatestCheckpointCallback
\* if self.n_calls % 100 == 0
ShouldCleanup(calls) == calls % CleanupPeriod = 0

\* self.checkpoint_dir.glob("checkpoint_*.zip")
GlobMatches(f) == f.prefix = GlobPrefix

\* sorted(glob(...), key=st_mtime, reverse=True): newest first
SortedCheckpoints(d) ==
    Reverse(Filter(d, {f \in Range(d) : GlobMatches(f)}))

\* checkpoints[self.keep_last_n:]
EvictionCandidates(d, keep) ==
    SubSeq(SortedCheckpoints(d), keep + 1, Len(SortedCheckpoints(d)))

RECURSIVE UpToFirstFailure(_, _)
UpToFirstFailure(cands, failing) ==
    IF cands = << >> THEN {}
    ELSE IF Head(cands) \in failing THEN {Head(cands)}
         ELSE {Head(cands)} \cup UpToFirstFailure(Tail(cands), failing)

UnlinkTried_StopAtFirstFailure(cands, failing) == UpToFirstFailure(cands, failing)

\* for checkpoint in checkpoints[keep_last_n:]: try: unlink() except: warn
\* the files unlink() is called on; failing = those whose unlink() raises
UnlinkTried(cands, failing) == Range(cands)

\* _cleanup_old_checkpoints; failing is the set of files unlink() fails on
CleanupOldCheckpoints(d, keep, failing) ==
    LET cands == EvictionCandidates(d, keep)
        tried == UnlinkTried(cands, failing)
        removed == tried \ failing
    IN  [cands  |-> cands,
         tried  |-> tried,
         failed |-> tried \cap failing,
         disk   |-> Filter(d, Range(d) \ removed)]

\* ------------------------------------------------------------------ Init
\* train.py main: one CheckpointCallback with the default name_prefix and
\* no LatestCheckpointCallback in the callback list
MainConfig == name_prefix = DefaultNamePrefix /\ ~use_latest

Init ==
    /\ name_prefix \in NamePrefixes
    /\ save_freq \in SaveFreqs
    /\ s3_enabled \in BOOLEAN
    /\ n_envs \in EnvCounts
    /\ use_latest \in BOOLEAN
    /\ keep_last_n \in IF use_latest THEN KeepChoices ELSE {DefaultKeepLastN}
    /\ run = 1
    /\ phase = "training"
    /\ pc = "ckpt"
    /\ n_calls = 0
    /\ num_timesteps = 0
    /\ checkpoints_saved = 0
    /\ disk = << >>
    /\ op = "init"
    /\ hook_ret = "none"
    /\ fail_site = "none"
    /\ saved_path = << >>
    /\ upload_log = << >>
    /\ pre_disk = << >>
    /\ evict_cands = << >>
    /\ evict_tried = {}
    /\ evict_failed = {}
    /\ final_saved = FALSE
    /\ last_periodic_step = 0
    /\ upload_error_seen = FALSE
    /\ sm = "off"
    /\ ln = "off"
    /\ bd = "off"
    /\ cf = "off"
    /\ tr = "off"

NoEviction ==
    /\ evict_cands' = << >>
    /\ evict_tried' = {}
    /\ evict_failed' = {}

\* --------------------------------------------------------------- actions
\* One iteration of the trainer's loop up to and including
\* CheckpointCallback.on_step: the trainer advances the global step by
\* n_envs, BaseCallback.on_step counts the call, _on_step runs.
CheckpointOnStep ==
    /\ phase = "training"
    /\ pc = "ckpt"
    /\ n_calls < MaxCalls
    /\ \E saveOk \in BOOLEAN, upOk \in BOOLEAN :
        LET calls    == n_calls + 1
            ts       == num_timesteps + n_envs
            saving   == ShouldSave(calls, save_freq)
            path     == GetCheckpointPath(name_prefix, ts)
            written  == saving /\ saveOk
            ups      == IF written THEN UploadAttempts(s3_enabled, upOk) ELSE << >>
            upRaised == written /\ UploadToS3(s3_enabled, upOk) = "raised"
            raised   == (saving /\ ~saveOk) \/ upRaised
        IN  /\ n_calls' = calls
            /\ num_timesteps' = ts
            /\ checkpoints_saved' =
                 IF saving THEN CountAfterSave(checkpoints_saved, saveOk)
                 ELSE checkpoints_saved
            /\ pre_disk' = disk
            /\ disk' = IF written THEN WriteFile(disk, path) ELSE disk
            /\ saved_path' = IF written THEN <<path>> ELSE << >>
            /\ last_periodic_step' = IF written THEN ts ELSE last_periodic_step
            /\ upload_log' = ups
            /\ upload_error_seen' = (upload_error_seen \/ "error" \in Range(ups))
            /\ hook_ret' = IF raised THEN "raised" ELSE "true"
            /\ fail_site' = IF saving /\ ~saveOk THEN "save"
                            ELSE IF upRaised THEN "upload" ELSE "none"
            /\ phase' = IF raised THEN "failed" ELSE "training"
            /\ pc' = IF ~raised /\ use_latest THEN "latest" ELSE "ckpt"
    /\ op' = "ckpt_step"
    /\ NoEviction
    /\ UNCHANGED <<cfg, run, final_saved, sm, ln, bd, cf, tr>>

\* LatestCheckpointCallback.on_step of the same iteration
LatestOnStep ==
    /\ phase = "training"
    /\ pc = "latest"
    /\ IF ShouldCleanup(n_calls)
       THEN \E failing \in SUBSET Range(EvictionCandidates(disk, keep_last_n)) :
              /\ Cardinality(failing) <= MaxUnlinkFailures
              /\ LET r == CleanupOldCheckpoints(disk, keep_last_n, failing)
                 IN  /\ disk' = r.disk
                     /\ evict_cands' = r.cands
                     /\ evict_tried' = r.tried
                     /\ evict_failed' = r.failed
              /\ op' = "evict"
       ELSE /\ NoEviction
            /\ op' = "latest_step"
            /\ UNCHANGED disk
    /\ pre_disk' = disk
    /\ hook_ret' = "true"
    /\ fail_site' = "none"
    /\ saved_path' = << >>
    /\ upload_log' = << >>
    /\ pc' = "ckpt"
    /\ UNCHANGED <<cfg, run, phase, n_calls, num_timesteps, checkpoints_saved,
                   final_saved, last_periodic_step, upload_error_seen, sm, ln, bd, cf, tr>>

\* model.learn reaches total_steps: CheckpointCallback._on_training_end
OnTrainingEnd ==
    /\ phase = "training"
    /\ pc = "ckpt"
    /\ \E saveOk \in BOOLEAN, upOk \in BOOLEAN :
        LET path     == FinalCheckpointPath(name_prefix)
            ups      == IF saveOk THEN UploadAttempts(s3_enabled, upOk) ELSE << >>
            upRaised == saveOk /\ UploadToS3(s3_enabled, upOk) = "raised"
            raised   == ~saveOk \/ upRaised
        IN  /\ disk' = IF saveOk THEN WriteFile(disk, path) ELSE disk
            /\ saved_path' = IF saveOk THEN <<path>> ELSE << >>
            /\ final_saved' = saveOk
            /\ upload_log' = ups
            /\ upload_error_seen' = (upload_error_seen \/ "error" \in Range(ups))
            /\ hook_ret' = IF raised THEN "raised" ELSE "true"
            /\ fail_site' = IF ~saveOk THEN "final_save"
                            ELSE IF upRaised THEN "upload" ELSE "none"
            /\ phase' = IF raised THEN "failed" ELSE "ended"
    /\ pre_disk' = disk
    /\ op' = "train_end"
    /\ NoEviction
    /\ UNCHANGED <<cfg, run, pc, n_calls, num_timesteps, checkpoints_saved,
                   last_periodic_step, sm, ln, bd, cf, tr>>

\* the trainer raises inside model.learn; main logs and re-raises
TrainerError ==
    /\ phase = "training"
    /\ pc = "ckpt"
    /\ phase' = "failed"
    /\ op' = "error"
    /\ hook_ret' = "none"
    /\ fail_site' = "trainer"
    /\ saved_path' = << >>
    /\ upload_log' = << >>
    /\ pre_disk' = disk
    /\ NoEviction
    /\ UNCHANGED <<cfg, run, pc, n_calls, num_timesteps, checkpoints_saved,
                   disk, final_saved, last_periodic_step, upload_error_seen,
                   sm, ln, bd, cf, tr>>

\* a new training process on the same checkpoint directory (a managed spot
\* job restored from its CheckpointConfig, or a relaunch): fresh callbacks,
\* fresh model, the directory's files kept
NewRun ==
    /\ phase \in {"ended", "failed"}
    /\ run < MaxRuns
    /\ run' = run + 1
    /\ phase' = "training"
    /\ pc' = "ckpt"
    /\ n_calls' = 0
    /\ num_timesteps' = 0
    /\ checkpoints_saved' = 0
    /\ final_saved' = FALSE
    /\ last_periodic_step' = 0
    /\ upload_error_seen' = FALSE
    /\ op' = "init"
    /\ hook_ret' = "none"
    /\ fail_site' = "none"
    /\ saved_path' = << >>
    /\ upload_log' = << >>
    /\ pre_disk' = << >>
    /\ NoEviction
    /\ UNCHANGED <<cfg, disk, sm, ln, bd, cf, tr>>

Next ==
    \/ CheckpointOnStep
    \/ LatestOnStep
    \/ OnTrainingEnd
    \/ TrainerError
    \/ NewRun

Spec == Init /\ [][Next]_vars

TypeOK ==
    /\ phase \in {"training", "ended", "failed"}
    /\ n_calls \in 0..MaxCalls
    /\ run \in 1..MaxRuns

\* ------------------------------------------------------------- claims
Periodic(d) == {f \in Range(d) : ~f.final}
FinalFiles(d) == {f \in Range(d) : f.final}

\* the n files of S with the largest step counts
TopNBySteps(S, n) == {f \in S : Cardinality({g \in S : g.step > f.step}) < n}

\* C1: the final checkpoint, once on disk, is never deleted by an eviction
\* pass, whatever keep_last_n and whenever the pass runs.
C1_FinalNeverEvicted ==
    [][FinalCheckpointPath(name_prefix) \in Range(disk)
         => FinalCheckpointPath(name_prefix) \in Range(disk')]_vars

\* C2: immediately after every eviction pass at most keep_last_n periodic
\* checkpoints remain on disk (stated for the passes in which every unlink()
\* succeeds).
C2_AtMostNAfterPass ==
    (op = "evict" /\ evict_failed = {}) =>
        Cardinality(Periodic(disk)) <= keep_last_n

\* C3: the periodic checkpoints surviving an eviction pass are exactly the
\* keep_last_n with the largest step counts among those present before it,
\* and no smaller step count survives while a larger one is deleted (stated
\* for the default name_prefix and the passes in which every unlink()
\* succeeds).
C3_SurvivorsAreLargestSteps ==
    (op = "evict" /\ evict_failed = {} /\ name_prefix = DefaultNamePrefix) =>
        /\ Periodic(disk) = TopNBySteps(Periodic(pre_disk), keep_last_n)
        /\ \A f \in Periodic(disk) :
             \A g \in Periodic(pre_disk) \ Periodic(disk) : g.step < f.step

\* C4: at every point of a run started by train.py main the number of
\* periodic checkpoint files on disk is at most the retention size.
C4_BoundedAtAllTimes ==
    MainConfig => Cardinality(Periodic(disk)) <= keep_last_n

\* C5: however a run ends, an error raised in the step loop by the trainer
\* or by a hook included, the final checkpoint has been saved by then.
C5_FinalOnEveryExit ==
    (phase \in {"ended", "failed"} /\ fail_site # "final_save") => final_saved

\* C6: a run whose _on_training_end has completed has exactly one checkpoint
\* marked final, and a periodic checkpoint of the same global step is still
\* there as a separate file.
C6_ExactlyOneFinal ==
    (op = "train_end" /\ hook_ret = "true") =>
        /\ Cardinality(FinalFiles(disk)) = 1
        /\ final_saved
        /\ LET p == GetCheckpointPath(name_prefix, num_timesteps)
           IN  p \in Range(pre_disk) => (p \in Range(disk) /\ p \notin FinalFiles(disk))

C6_Witness ==
    /\ op = "train_end"
    /\ hook_ret = "true"
    /\ num_timesteps > 0
    /\ last_periodic_step = num_timesteps
    /\ GetCheckpointPath(name_prefix, num_timesteps) \in Range(disk)
    /\ FinalCheckpointPath(name_prefix) \in Range(disk)

\* C7: the step counts that identify two consecutive periodic checkpoints
\* of a run differ by exactly save_freq, for every n_envs.
C7_CadenceInSteps ==
    [][(op' = "ckpt_step" /\ saved_path' # << >> /\ last_periodic_step > 0)
         => last_periodic_step' - last_periodic_step = save_freq]_vars

\* C8: an upload that raises never stops the run: the hook returns True, the
\* checkpoint it saved stays on disk, the run goes on (or ends normally, for
\* the final checkpoint), and every later cadence point still saves.
C8_ReplicationFailureNonFatal ==
    /\ "error" \in Range(upload_log) =>
          /\ hook_ret = "true"
          /\ fail_site = "none"
          /\ saved_path # << >>
          /\ saved_path[1] \in Range(disk)
          /\ phase = (IF op = "train_end" THEN "ended" ELSE "training")
    /\ (upload_error_seen /\ phase = "training") =>
          /\ checkpoints_saved = n_calls \div save_freq
          /\ last_periodic_step = (n_calls \div save_freq) * save_freq * n_envs

C8_Witness ==
    /\ upload_error_seen
    /\ op = "ckpt_step"
    /\ saved_path # << >>
    /\ upload_log = <<"ok">>
    /\ phase = "training"

\* C9: a periodic local save that fails propagates out of the hook and ends
\* the run; that checkpoint is not counted and no upload is attempted.
C9_SaveFailureFatal ==
    fail_site = "save" =>
        /\ phase = "failed"
        /\ hook_ret = "raised"
        /\ upload_log = << >>
        /\ saved_path = << >>
        /\ disk = pre_disk
        /\ checkpoints_saved = (n_calls \div save_freq) - 1

C9_Witness ==
    /\ fail_site = "save"
    /\ op = "ckpt_step"
    /\ s3_enabled
    /\ checkpoints_saved >= 1

\* C10: when an unlink() of an eviction pass fails, the pass still calls
\* unlink() on every other candidate, the hook returns True and training
\* goes on.
C10_UnlinkFailureSkipped ==
    (op = "evict" /\ evict_failed # {}) =>
        /\ evict_tried = Range(evict_cands)
        /\ \A f \in Range(evict_cands) \ evict_failed : f \notin Range(disk)
        /\ evict_failed \subseteq Range(disk)
        /\ hook_ret = "true"
        /\ phase = "training"

C10_Witness ==
    /\ op = "evict"
    /\ Len(evict_cands) >= 2
    /\ evict_cands[1] \in evict_failed
    /\ evict_cands[2] \notin Range(disk)
    /\ phase = "training"

\* the checkpoint callbacks are not installed: their variables stay put
CkptOff ==
    /\ name_prefix = DefaultNamePrefix
    /\ save_freq = 20
    /\ s3_enabled = FALSE
    /\ n_envs = 1
    /\ use_latest = FALSE
    /\ keep_last_n = DefaultKeepLastN
    /\ run = 1
    /\ phase = "off"
    /\ pc = "off"
    /\ n_calls = 0
    /\ num_timesteps = 0
    /\ checkpoints_saved = 0
    /\ disk = << >>
    /\ op = "init"
    /\ hook_ret = "none"
    /\ fail_site = "none"
    /\ saved_path = << >>
    /\ upload_log = << >>
    /\ pre_disk = << >>
    /\ evict_cands = << >>
    /\ evict_tried = {}
    /\ evict_failed = {}
    /\ final_saved = FALSE
    /\ last_periodic_step = 0
    /\ upload_error_seen = FALSE

\* ======================================================================
\* SageMakerCallback (training/callbacks/sagemaker_callback.py)
\* ======================================================================
MaxSmEnvs == 2       \* largest parallelism of the telemetry runs
MaxSmSteps == 3      \* on_step calls of a telemetry run
MaxEpisodes == 3     \* completed episodes of a telemetry run

EpisodeRewards == {-1, 2}
EpisodeLengths == {1, 3}

\* the optional values: model.exploration_rate and the logger's name_to_value
\* keys, in the order _emit_algorithm_metrics tests them
OptionalMetrics ==
    << [key |-> "exploration_rate", name |-> "exploration_rate"],
       [key |-> "train/loss", name |-> "loss"],
       [key |-> "train/policy_loss", name |-> "policy_loss"],
       [key |-> "train/value_loss", name |-> "value_loss"],
       [key |-> "train/entropy_loss", name |-> "entropy_loss"],
       [key |-> "train/approx_kl", name |-> "approx_kl"],
       [key |-> "train/clip_fraction", name |-> "clip_fraction"],
       [key |-> "replay_buffer/prioritized_replay_beta", name |-> "per_beta"] >>

\* what the trainer has available when an episode ends: nothing yet, the
\* value-based set, the policy-gradient set
AvailableChoices ==
    { {},
      {"exploration_rate", "train/loss", "replay_buffer/prioritized_replay_beta"},
      {"train/policy_loss", "train/value_loss", "train/entropy_loss",
       "train/approx_kl", "train/clip_fraction"} }

RequiredMetrics == {"episode_reward", "episode_length", "episode_number", "total_timesteps"}

\* the info dict of one environment: the Monitor wrapper that make_vec_env
\* adds puts the "episode" entry exactly when the environment is done
InfoChoices(done) ==
    IF done
    THEN {[has_episode |-> TRUE, r |-> r, l |-> l] :
            r \in EpisodeRewards, l \in EpisodeLengths}
    ELSE {[has_episode |-> FALSE, r |-> 0, l |-> 0]}

EpisodeLines_NoTimesteps(reward, length, count, timesteps) ==
    << [name |-> "episode_reward", value |-> reward],
       [name |-> "episode_length", value |-> length],
       [name |-> "episode_number", value |-> count] >>

\* the four print() calls of _on_step for one finished episode
EpisodeLines(reward, length, count, timesteps) ==
    << [name |-> "episode_reward", value |-> reward],
       [name |-> "episode_length", value |-> length],
       [name |-> "episode_number", value |-> count],
       [name |-> "total_timesteps", value |-> timesteps] >>

\* _emit_algorithm_metrics: one line per available value, absence is silent
RECURSIVE EmitFrom(_, _)
EmitFrom(metrics, available) ==
    IF metrics = << >> THEN << >>
    ELSE (IF Head(metrics).key \in available
          THEN <<[name |-> Head(metrics).name, value |-> 0]>> ELSE << >>)
         \o EmitFrom(Tail(metrics), available)

EmitAlgorithmMetrics(available) == EmitFrom(OptionalMetrics, available)

NextEpisodeCount_Stuck(count) == count

\* self.episode_count += 1
NextEpisodeCount(count) == count + 1

\* the values of the episode_number lines among the lines printed, in order
RECURSIVE EpisodeNumbers(_)
EpisodeNumbers(out) ==
    IF out = << >> THEN << >>
    ELSE (IF Head(out).name = "episode_number" THEN <<Head(out).value>> ELSE << >>)
         \o EpisodeNumbers(Tail(out))

\* for i, (done, info) in enumerate(zip(dones, infos)): the loop of _on_step
\* from environment i on, acc = the callback's fields and the lines printed
RECURSIVE EpisodeLoop(_, _, _, _, _, _)
EpisodeLoop(i, dones, infos, available, timesteps, acc) ==
    IF i > Len(dones) \/ i > Len(infos) THEN acc
    ELSE IF dones[i] /\ infos[i].has_episode
         THEN LET count == NextEpisodeCount(acc.episode_count)
              IN  EpisodeLoop(i + 1, dones, infos, available, timesteps,
                    [episode_rewards |-> Append(acc.episode_rewards, infos[i].r),
                     episode_lengths |-> Append(acc.episode_lengths, infos[i].l),
                     episode_count   |-> count,
                     out |-> acc.out
                             \o EpisodeLines(infos[i].r, infos[i].l, count, timesteps)
                             \o EmitAlgorithmMetrics(available)])
         ELSE EpisodeLoop(i + 1, dones, infos, available, timesteps, acc)

SmInit ==
    /\ sm \in {[n_envs |-> n, n_calls |-> 0, num_timesteps |-> 0,
                episode_rewards |-> << >>, episode_lengths |-> << >>,
                episode_count |-> 0, dones |-> << >>, out |-> << >>,
                numbers |-> << >>, ret |-> "none"] : n \in 1..MaxSmEnvs}
    /\ ln = "off"
    /\ bd = "off"
    /\ cf = "off"
    /\ tr = "off"
    /\ CkptOff

\* one iteration of the trainer's loop: every environment steps, the global
\* step advances by n_envs, SageMakerCallback._on_step runs on the trainer's
\* locals (dones, infos)
SmOnStep ==
    /\ sm.n_calls < MaxSmSteps
    /\ \E dones \in [1..sm.n_envs -> BOOLEAN], available \in AvailableChoices :
        /\ sm.episode_count + Cardinality({i \in 1..sm.n_envs : dones[i]}) <= MaxEpisodes
        /\ \E infos \in [1..sm.n_envs -> UNION {InfoChoices(d) : d \in BOOLEAN}] :
            /\ \A i \in 1..sm.n_envs : infos[i] \in InfoChoices(dones[i])
            /\ LET ts  == sm.num_timesteps + sm.n_envs
                   acc == EpisodeLoop(1, dones, infos, available, ts,
                            [episode_rewards |-> sm.episode_rewards,
                             episode_lengths |-> sm.episode_lengths,
                             episode_count   |-> sm.episode_count,
                             out |-> << >>])
               IN  sm' = [n_envs |-> sm.n_envs,
                          n_calls |-> sm.n_calls + 1,
                          num_timesteps |-> ts,
                          episode_rewards |-> acc.episode_rewards,
                          episode_lengths |-> acc.episode_lengths,
                          episode_count |-> acc.episode_count,
                          dones |-> dones,
                          out |-> acc.out,
                          numbers |-> sm.numbers \o EpisodeNumbers(acc.out),
                          ret |-> "true"]
    /\ UNCHANGED <<ckptVars, ln, bd, cf, tr>>

SmNext == SmOnStep

SmSpec == SmInit /\ [][SmNext]_vars

LinesNamed(out, name) == {i \in DOMAIN out : out[i].name = name}
DoneCount(dones) == Cardinality({i \in DOMAIN dones : dones[i]})

\* C11: for every episode completed at a step (every environment whose done
\* flag is set), the hook prints exactly one line for each of the four
\* required metrics, whatever optional values the trainer has.
C11_RequiredLinesPerEpisode ==
    \A m \in RequiredMetrics :
        Cardinality(LinesNamed(sm.out, m)) = DoneCount(sm.dones)

C11_Witness ==
    /\ sm.n_envs = 2
    /\ DoneCount(sm.dones) = 2
    /\ Len(sm.out) > 8
    /\ \A m \in RequiredMetrics : Cardinality(LinesNamed(sm.out, m)) = 2

\* ======================================================================
\* launch_training.py: build_training_job_config
\* ======================================================================
MaxRuntimeSeconds == 86400
MaxWaitSeconds == 172800

\* Python values of the loaded YAML, tagged with their type:
\* float w.t is the pair <<w, t>> of its integer part and its one decimal
PyBool(b) == [kind |-> "bool", val |-> b]
PyInt(n) == [kind |-> "int", val |-> n]
PyFloat(w, t) == [kind |-> "float", val |-> <<w, t>>]
PyString(s) == [kind |-> "str", val |-> s]
PyNone == [kind |-> "null", val |-> << >>]

\* str(value)
Str(v) ==
    CASE v.kind = "bool"  -> IF v.val THEN "True" ELSE "False"
      [] v.kind = "int"   -> ToString(v.val)
      [] v.kind = "float" -> ToString(v.val[1]) \o "." \o ToString(v.val[2])
      [] v.kind = "str"   -> v.val
      [] v.kind = "null"  -> "None"

\* str.lower() on the two texts it is applied to
Lower(s) ==
    CASE s = "True"  -> "true"
      [] s = "False" -> "false"
      [] OTHER       -> s

ToHpString_Raw(v) == v

\* the value stored in the hyperparameter map for a Python value
ToHpString(v) ==
    IF v.kind = "bool" THEN PyString(Lower(Str(v))) ELSE PyString(Str(v))

\* dict.update / repeated item assignment: entries of e replace those of d
Update(d, e) ==
    [k \in DOMAIN d \cup DOMAIN e |-> IF k \in DOMAIN e THEN e[k] ELSE d[k]]

\* job_hyperparameters as first assigned; seed is << >> (None) or <<n>>
BaseHyperparameters(algorithm, total_steps, seed) ==
    [k \in {"algorithm", "total_steps"} \cup (IF seed # << >> THEN {"seed"} ELSE {}) |->
        CASE k = "algorithm"   -> PyString(algorithm)
          [] k = "total_steps" -> ToHpString(PyInt(total_steps))
          [] k = "seed"        -> ToHpString(PyInt(seed[1]))]

\* the entries the loop over algorithm_config.items() assigns: a None
\* value matches neither branch and assigns nothing
ConfigHyperparameters(algorithm_config) ==
    [k \in {c \in DOMAIN algorithm_config : algorithm_config[c].kind # "null"} |->
        ToHpString(algorithm_config[k])]

BuildHyperparameters_ConfigLast(algorithm, total_steps, seed, algorithm_config, hyperparameters) ==
    Update(Update(BaseHyperparameters(algorithm, total_steps, seed), hyperparameters),
           ConfigHyperparameters(algorithm_config))

BuildHyperparameters(algorithm, total_steps, seed, algorithm_config, hyperparameters) ==
    Update(Update(BaseHyperparameters(algorithm, total_steps, seed),
                  ConfigHyperparameters(algorithm_config)),
           hyperparameters)

EnvironmentVariables_Swapped(scenario, environment_mode) ==
    [SCENARIO_NAME |-> environment_mode, ENVIRONMENT_MODE |-> scenario]

EnvironmentVariables(scenario, environment_mode) ==
    [SCENARIO_NAME |-> scenario, ENVIRONMENT_MODE |-> environment_mode]

StoppingCondition_WaitEqualsRuntime(enable_spot) ==
    IF enable_spot
    THEN [MaxRuntimeInSeconds |-> MaxRuntimeSeconds, MaxWaitTimeInSeconds |-> MaxRuntimeSeconds]
    ELSE [MaxRuntimeInSeconds |-> MaxRuntimeSeconds]

\* config["StoppingCondition"] as build_training_job_config returns it
StoppingCondition(enable_spot) ==
    IF enable_spot
    THEN [MaxRuntimeInSeconds |-> MaxRuntimeSeconds, MaxWaitTimeInSeconds |-> MaxWaitSeconds]
    ELSE [MaxRuntimeInSeconds |-> MaxRuntimeSeconds]

\* one entry of METRIC_DEFINITIONS: the name and, of its pattern
\* "<name>: (<class>+)", the character class of the captured value
Metric(name, class) == [Name |-> name, Value |-> class]
SignedDecimal == "[0-9\\.\\-]"
Decimal == "[0-9\\.]"
Digits == "[0-9]"

PolicyGradientMetrics ==
    << Metric("episode_reward", SignedDecimal), Metric("episode_length", Digits),
       Metric("policy_loss", SignedDecimal), Metric("value_loss", SignedDecimal),
       Metric("entropy_loss", SignedDecimal), Metric("approx_kl", Decimal),
       Metric("clip_fraction", Decimal) >>

\* METRIC_DEFINITIONS[algorithm]
MetricDefinitions(algorithm) ==
    CASE algorithm = "drqn" ->
             << Metric("episode_reward", SignedDecimal), Metric("episode_length", Digits),
                Metric("episode_number", Digits), Metric("total_timesteps", Digits),
                Metric("exploration_rate", Decimal), Metric("loss", Decimal),
                Metric("per_beta", Decimal) >>
      [] algorithm = "dqn" ->
             << Metric("episode_reward", SignedDecimal), Metric("episode_length", Digits),
                Metric("exploration_rate", Decimal), Metric("loss", Decimal) >>
      [] algorithm = "ppo" -> PolicyGradientMetrics
      [] algorithm = "recurrent_ppo" -> PolicyGradientMetrics

\* the descriptor; vpc_config is << >> (None) or <<mapping>>
BuildTrainingJobConfig(job_name, algorithm, total_steps, scenario, enable_spot, seed, hyperparameters, environment_mode, algorithm_config, vpc_config) ==
    [TrainingJobName   |-> job_name,
     AlgorithmSpecification |-> [MetricDefinitions |-> MetricDefinitions(algorithm)],
     Environment       |-> EnvironmentVariables(scenario, environment_mode),
     StoppingCondition |-> StoppingCondition(enable_spot),
     HyperParameters   |-> BuildHyperparameters(algorithm, total_steps, seed,
                                                algorithm_config, hyperparameters),
     CheckpointConfig  |-> [S3Uri |-> <<"checkpoints", job_name>>],
     Tags              |-> [Algorithm |-> algorithm]]
    @@ (IF enable_spot THEN "EnableManagedSpotTraining" :> TRUE ELSE << >>)
    @@ (IF vpc_config # << >> THEN "VpcConfig" :> vpc_config[1] ELSE << >>)

\* ------------------------------------------------------------- arguments
ValidAlgorithms == {"drqn", "dqn", "ppo", "recurrent_ppo"}
Algorithms == {"drqn", "ppo"}
Scenarios == {"drqn_scenario.yaml", "custom.yaml"}
EnvironmentModes == {"sim", "aws"}
Seeds == {<< >>, <<42>>}
TotalSteps == {500000}
ConfigKeys == {"seed", "gamma"}
ConfigValues == {PyBool(TRUE), PyBool(FALSE), PyInt(7), PyFloat(0, 5), PyString("cpu"), PyNone}
AlgorithmConfigs == UNION {[ks -> ConfigValues] : ks \in SUBSET ConfigKeys}
OverrideKeys == {"seed", "gamma", "scenario_name"}
OverrideTexts == {"9", "True"}
Overrides == UNION {[ks -> {PyString(t) : t \in OverrideTexts}] : ks \in SUBSET OverrideKeys}
VpcConfigOf(environment_mode) ==
    IF environment_mode = "aws"
    THEN <<[Subnets |-> "subnet-1", SecurityGroupIds |-> "sg-1"]>> ELSE << >>

BdInit ==
    /\ bd \in {[pc |-> "args", job_name |-> "job", algorithm |-> a, total_steps |-> n,
                scenario |-> sc, enable_spot |-> sp, seed |-> sd, hyperparameters |-> hp,
                environment_mode |-> m, algorithm_config |-> c,
                vpc_config |-> VpcConfigOf(m), config |-> << >>] :
                a \in ValidAlgorithms, n \in TotalSteps, sc \in Scenarios, sp \in BOOLEAN,
                sd \in Seeds, hp \in Overrides, m \in EnvironmentModes,
                c \in AlgorithmConfigs}
    /\ sm = "off"
    /\ ln = "off"
    /\ cf = "off"
    /\ tr = "off"
    /\ CkptOff

BdBuild ==
    /\ bd.pc = "args"
    /\ bd' = [bd EXCEPT
                !.pc = "built",
                !.config = BuildTrainingJobConfig(bd.job_name, bd.algorithm, bd.total_steps,
                              bd.scenario, bd.enable_spot, bd.seed, bd.hyperparameters,
                              bd.environment_mode, bd.algorithm_config, bd.vpc_config)]
    /\ UNCHANGED <<ckptVars, sm, ln, cf, tr>>

BdNext == BdBuild

BdSpec == BdInit /\ [][BdNext]_vars

BaseKeys == {"algorithm", "total_steps", "seed"}
Built == bd.pc = "built"
HP == bd.config.HyperParameters

\* C13 as stated: every key of the overrides carries the override's value;
\* every key of the algorithm configuration that the overrides do not name
\* carries the configuration's value (in string form), base keys included.
C13_PrecedenceAsStated ==
    Built =>
        /\ \A k \in DOMAIN bd.hyperparameters :
              k \in DOMAIN HP /\ HP[k] = bd.hyperparameters[k]
        /\ \A k \in DOMAIN bd.algorithm_config \ DOMAIN bd.hyperparameters :
              k \in DOMAIN HP /\ HP[k].val = Lower(Str(bd.algorithm_config[k]))

\* C13 (amended): overrides win; a configuration key with a non-null value
\* that the overrides do not name carries the configuration's value as a
\* string (booleans lower-cased), base keys included; a null-valued
\* configuration key is skipped, leaving the base value or no entry; a
\* base key named by neither carries the launch argument.
C13_Precedence ==
    Built =>
        /\ \A k \in DOMAIN bd.hyperparameters :
              k \in DOMAIN HP /\ HP[k] = bd.hyperparameters[k]
        /\ \A k \in DOMAIN bd.algorithm_config \ DOMAIN bd.hyperparameters :
              IF bd.algorithm_config[k].kind # "null"
              THEN /\ k \in DOMAIN HP
                   /\ HP[k].val = (IF bd.algorithm_config[k].kind = "bool"
                                   THEN (IF bd.algorithm_config[k].val THEN "true" ELSE "false")
                                   ELSE Str(bd.algorithm_config[k]))
              ELSE IF k = "seed" /\ bd.seed # << >>
                   THEN k \in DOMAIN HP /\ HP[k].val = ToString(bd.seed[1])
                   ELSE k \notin DOMAIN HP
        /\ ("algorithm" \notin DOMAIN bd.hyperparameters \cup DOMAIN bd.algorithm_config)
              => HP["algorithm"].val = bd.algorithm

C13_Witness ==
    /\ Built
    /\ bd.seed = <<42>>
    /\ "seed" \in DOMAIN bd.algorithm_config
    /\ bd.algorithm_config["seed"] = PyInt(7)
    /\ "gamma" \in DOMAIN bd.algorithm_config
    /\ bd.algorithm_config["gamma"] = PyFloat(0, 5)
    /\ DOMAIN bd.hyperparameters = {"gamma"}
    /\ HP["seed"].val = "7"
    /\ HP["gamma"].val = "9"

\* C14: every value of the descriptor's hyperparameter map is a string, for
\* configuration values of every type (boolean, integer, float, string,
\* null) and every override map; a configuration boolean that reaches the
\* map appears as "true" or "false".
C14_AllValuesAreStrings ==
    Built =>
        /\ \A k \in DOMAIN HP : HP[k].kind = "str"
        /\ \A k \in DOMAIN bd.algorithm_config \ DOMAIN bd.hyperparameters :
              bd.algorithm_config[k].kind = "bool"
                  => HP[k].val = (IF bd.algorithm_config[k].val THEN "true" ELSE "false")

C14_Witness ==
    /\ Built
    /\ bd.seed = <<42>>
    /\ bd.hyperparameters = << >>
    /\ DOMAIN bd.algorithm_config = {"seed", "gamma"}
    /\ bd.algorithm_config["seed"] = PyNone
    /\ bd.algorithm_config["gamma"] = PyBool(TRUE)
    /\ HP["gamma"] = PyString("true")
    /\ HP["seed"] = PyString("42")
    /\ HP["total_steps"] = PyString("500000")

\* C15: the descriptor's Environment map holds SCENARIO_NAME and
\* ENVIRONMENT_MODE equal to the launch arguments, and the builder adds no
\* scenario or environment-mode entry to the hyperparameter map: such an
\* entry is there only when the configuration or the overrides name it.
C15_ScenarioAndModeInEnvironment ==
    Built =>
        /\ DOMAIN bd.config.Environment = {"SCENARIO_NAME", "ENVIRONMENT_MODE"}
        /\ bd.config.Environment.SCENARIO_NAME = bd.scenario
        /\ bd.config.Environment.ENVIRONMENT_MODE = bd.environment_mode
        /\ DOMAIN HP \subseteq
              BaseKeys \cup DOMAIN bd.algorithm_config \cup DOMAIN bd.hyperparameters
        /\ \A k \in {"scenario_name", "environment_mode", "scenario"} :
              k \in DOMAIN HP
                  => k \in DOMAIN bd.algorithm_config \cup DOMAIN bd.hyperparameters

C15_Witness ==
    /\ Built
    /\ bd.scenario = "custom.yaml"
    /\ bd.environment_mode = "aws"
    /\ bd.config.Environment.SCENARIO_NAME = "custom.yaml"
    /\ bd.config.Environment.ENVIRONMENT_MODE = "aws"
    /\ DOMAIN HP = {"algorithm", "total_steps"}

\* C17: the descriptor carries a maximum-wait bound exactly when spot
\* capacity is requested, and a maximum-wait bound that is present is
\* strictly larger than the maximum-runtime bound.
C17_MaxWaitIffSpot ==
    Built =>
        LET sc == bd.config.StoppingCondition
        IN  /\ ("MaxWaitTimeInSeconds" \in DOMAIN sc) <=> bd.enable_spot
            /\ ("EnableManagedSpotTraining" \in DOMAIN bd.config) <=> bd.enable_spot
            /\ "MaxWaitTimeInSeconds" \in DOMAIN sc
                  => sc.MaxWaitTimeInSeconds > sc.MaxRuntimeInSeconds

C17_Witness ==
    /\ Built
    /\ bd.enable_spot
    /\ bd.config.StoppingCondition.MaxWaitTimeInSeconds = 172800
    /\ bd.config.StoppingCondition.MaxRuntimeInSeconds = 86400

\* ======================================================================
\* launch_training.py: main
\* ======================================================================
MaxLaunches == 2     \* invocations of the script
MaxMissing == 1      \* external facts (artifacts, outputs) that may be absent
MaxTickGap == 2      \* clock ticks between two invocations
TicksPerSecond == 2  \* resolution of the model's clock: half seconds

DefaultJobPrefix == "cyborg-rl-research"
JobPrefixArgs == {"", "exp"}
ScenarioArgs == {"", "custom.yaml"}
FlowConfigs == {<< >>, [gamma |-> PyFloat(0, 5), double |-> PyBool(TRUE)]}

\* values of --hyperparameter, each option a text cut into tokens at "="
HpItemChoices ==
    { << >>,
      << <<"seed", "=", "9">> >>,
      << <<"gamma", "=", "a", "=", "b">>, <<"gamma", "=", "9">> >>,
      << <<"seed">> >> }

RECURSIVE Join(_)
Join(tokens) == IF tokens = << >> THEN "" ELSE Head(tokens) \o Join(Tail(tokens))

\* '=' in hp
HasEq(item) == "=" \in Range(item)

FirstEq(item) == CHOOSE i \in DOMAIN item : item[i] = "=" /\ \A j \in 1..(i - 1) : item[j] # "="

\* key, value = hp.split('=', 1)
SplitKey(item) == Join(SubSeq(item, 1, FirstEq(item) - 1))
SplitValue(item) == Join(SubSeq(item, FirstEq(item) + 1, Len(item)))

\* the loop over args.hyperparameter: exit(1) at the first option without "="
RECURSIVE ParseFrom(_, _)
ParseFrom(items, acc) ==
    IF items = << >> THEN [status |-> "ok", hyperparameters |-> acc]
    ELSE IF ~HasEq(Head(items)) THEN [status |-> "exit", hyperparameters |-> acc]
    ELSE ParseFrom(Tail(items),
                   Update(acc, SplitKey(Head(items)) :> PyString(SplitValue(Head(items)))))

ParseHyperparameters(items) == ParseFrom(items, << >>)

\* scenario = args.scenario or f"{args.algorithm}_scenario.yaml"
ScenarioOf(algorithm, scenario_arg) ==
    IF scenario_arg = "" THEN algorithm \o "_scenario.yaml" ELSE scenario_arg

\* external facts: image in the registry, configuration object and scenario
\* object in storage, the infrastructure outputs, the network outputs
Facts == {"image", "algorithm_config", "scenario", "infrastructure", "vpc"}
Worlds == {w \in [Facts -> BOOLEAN] : Cardinality({f \in Facts : ~w[f]}) <= MaxMissing}

CheckPrerequisites_NoScenario(world) ==
    IF ~world["image"] THEN [status |-> "exit", missing |-> "image"]
    ELSE IF ~world["algorithm_config"] THEN [status |-> "exit", missing |-> "algorithm_config"]
    ELSE [status |-> "ok", missing |-> "none"]

\* check_prerequisites: sys.exit(1) at the first artifact not found
CheckPrerequisites(world) ==
    IF ~world["image"] THEN [status |-> "exit", missing |-> "image"]
    ELSE IF ~world["algorithm_config"] THEN [status |-> "exit", missing |-> "algorithm_config"]
    ELSE IF ~world["scenario"] THEN [status |-> "exit", missing |-> "scenario"]
    ELSE [status |-> "ok", missing |-> "none"]

\* datetime.now().strftime("%Y%m%d-%H%M%S"): the clock cut to whole seconds
Timestamp(now) == now \div TicksPerSecond

\* f"{prefix}-{algorithm}-{timestamp}"; the three parts determine the text
\* and, the algorithm being one of VALID_ALGORITHMS and the timestamp of
\* fixed width, the text determines the three parts
GenerateJobName(algorithm, prefix, now) ==
    [prefix |-> prefix, algorithm |-> algorithm, timestamp |-> Timestamp(now)]

LaunchArgs ==
    [algorithm : Algorithms, job_name_prefix : JobPrefixArgs, scenario : ScenarioArgs,
     environment_mode : EnvironmentModes, hyperparameter : HpItemChoices,
     algorithm_config : FlowConfigs, total_steps : TotalSteps,
     enable_spot : {TRUE}, seed : {<< >>}]

\* the state of one invocation before main has done anything
Fresh(args, world, clock, attempts, jobs, launch) ==
    [pc |-> "start", launch |-> launch, args |-> args, world |-> world, clock |-> clock,
     scenario |-> "", hyperparameters |-> << >>, job_name |-> << >>,
     vpc_config |-> << >>, config |-> << >>,
     checked |-> FALSE, built |-> FALSE, launched |-> FALSE, exit_at |-> "none",
     attempts |-> attempts, jobs |-> jobs]

LnInit ==
    /\ ln \in {Fresh(a, w, 0, << >>, {}, 1) : a \in LaunchArgs, w \in Worlds}
    /\ sm = "off"
    /\ bd = "off"
    /\ cf = "off"
    /\ tr = "off"
    /\ CkptOff

Exit(at) == [ln EXCEPT !.pc = "failed", !.exit_at = at]

\* main: scenario default and the --hyperparameter options
LnParseHyperparameters ==
    /\ ln.pc = "start"
    /\ LET parsed == ParseHyperparameters(ln.args.hyperparameter)
       IN  ln' = IF parsed.status = "exit" THEN Exit("hyperparameter")
                 ELSE [ln EXCEPT !.pc = "parsed",
                                 !.scenario = ScenarioOf(ln.args.algorithm, ln.args.scenario),
                                 !.hyperparameters = parsed.hyperparameters]
    /\ UNCHANGED <<ckptVars, sm, bd, cf, tr>>

\* SageMakerTrainingLauncher(terraform_dir): _load_infrastructure_info
LnInitLauncher ==
    /\ ln.pc = "parsed"
    /\ ln' = IF ~ln.world["infrastructure"] THEN Exit("infrastructure")
             ELSE [ln EXCEPT !.pc = "launcher"]
    /\ UNCHANGED <<ckptVars, sm, bd, cf, tr>>

LnCheckPrerequisites ==
    /\ ln.pc = "launcher"
    /\ ln' = IF CheckPrerequisites(ln.world).status = "exit"
             THEN Exit(CheckPrerequisites(ln.world).missing)
             ELSE [ln EXCEPT !.pc = "checked", !.checked = TRUE]
    /\ UNCHANGED <<ckptVars, sm, bd, cf, tr>>

LnGenerateJobName ==
    /\ ln.pc = "checked"
    /\ LET job_prefix == IF ln.args.job_name_prefix = "" THEN DefaultJobPrefix
                         ELSE ln.args.job_name_prefix
       IN  ln' = [ln EXCEPT !.pc = "named",
                            !.job_name = GenerateJobName(ln.args.algorithm, job_prefix, ln.clock)]
    /\ UNCHANGED <<ckptVars, sm, bd, cf, tr>>

LnVpcConfig ==
    /\ ln.pc = "named"
    /\ ln' = IF ln.args.environment_mode = "aws"
             THEN IF ln.world["vpc"]
                  THEN [ln EXCEPT !.pc = "vpc", !.vpc_config = VpcConfigOf("aws")]
                  ELSE Exit("vpc")
             ELSE [ln EXCEPT !.pc = "vpc"]
    /\ UNCHANGED <<ckptVars, sm, bd, cf, tr>>

LnBuild ==
    /\ ln.pc = "vpc"
    /\ ln' = [ln EXCEPT
                !.pc = "built",
                !.built = TRUE,
                !.config = BuildTrainingJobConfig(ln.job_name, ln.args.algorithm,
                              ln.args.total_steps, ln.scenario, ln.args.enable_spot,
                              ln.args.seed, ln.hyperparameters, ln.args.environment_mode,
                              ln.args.algorithm_config, ln.vpc_config)]
    /\ UNCHANGED <<ckptVars, sm, bd, cf, tr>>

\* launch_training_job: create_training_job, which the service refuses
\* (ClientError) for a name that a job of the account already has
LnLaunch ==
    /\ ln.pc = "built"
    /\ LET name == ln.config.TrainingJobName
       IN  ln' = IF name \in ln.jobs
                 THEN [ln EXCEPT !.pc = "failed", !.exit_at = "create_training_job",
                                 !.launched = TRUE,
                                 !.attempts = Append(ln.attempts, name)]
                 ELSE [ln EXCEPT !.pc = "done", !.launched = TRUE,
                                 !.attempts = Append(ln.attempts, name),
                                 !.jobs = ln.jobs \cup {name}]
    /\ UNCHANGED <<ckptVars, sm, bd, cf, tr>>

\* the script is started again, a little later
LnNewLaunch ==
    /\ ln.pc \in {"done", "failed"}
    /\ ln.launch < MaxLaunches
    /\ \E a \in LaunchArgs, dt \in 0..MaxTickGap :
          ln' = Fresh(a, ln.world, ln.clock + dt, ln.attempts, ln.jobs, ln.launch + 1)
    /\ UNCHANGED <<ckptVars, sm, bd, cf, tr>>

LnNext ==
    \/ LnParseHyperparameters
    \/ LnInitLauncher
    \/ LnCheckPrerequisites
    \/ LnGenerateJobName
    \/ LnVpcConfig
    \/ LnBuild
    \/ LnLaunch
    \/ LnNewLaunch

LnSpec == LnInit /\ [][LnNext]_vars

Artifacts == {"image", "algorithm_config", "scenario"}
ArtifactMissing == \E f \in Artifacts : ~ln.world[f]

\* C12: a job is submitted only after check_prerequisites has confirmed the
\* image, the algorithm configuration and the scenario; when one of them is
\* missing the flow ends in failure and neither build_training_job_config
\* nor launch_training_job is invoked.
C12_SubmitOnlyAfterPrerequisites ==
    /\ ln.launched => ln.checked /\ ~ArtifactMissing
    /\ ln.built => ln.checked /\ ~ArtifactMissing
    /\ ArtifactMissing =>
          /\ ~ln.built /\ ~ln.launched /\ ln.pc # "done"
          /\ ln.pc \in {"start", "parsed", "launcher", "failed"}
          /\ ln.attempts = << >>

C12_Witness ==
    /\ ~ln.world["scenario"]
    /\ ln.pc = "failed"
    /\ ln.exit_at = "scenario"
    /\ ~ln.built
    /\ ~ln.launched

\* C16: any two submissions carry distinct job names, whatever their
\* algorithms, prefixes and launch times, the same algorithm and prefix
\* included.
C16_DistinctJobNames ==
    \A i, j \in DOMAIN ln.attempts : i # j => ln.attempts[i] # ln.attempts[j]

\* ======================================================================
\* config_loader.py: merge_configs, validate_env_config
\* ======================================================================
MaxScalar == 2       \* non-mapping values are 1..MaxScalar
MaxBadKeys == 2      \* max_params keys that deviate from a valid map

\* a configuration value is a mapping (dict) or anything else
Scalar(n) == [kind |-> "s", val |-> n]
Mapping(m) == [kind |-> "m", val |-> m]

TopKeys == {"p", "q"}
InnerKeys == {"x"}
MapsOver(keys, values) == UNION {[ks -> values] : ks \in SUBSET keys}
InnerMappings == MapsOver(InnerKeys, {Scalar(n) : n \in 1..MaxScalar})
NestedValues == {Scalar(n) : n \in 1..MaxScalar} \cup {Mapping(m) : m \in InnerMappings}
NestedConfigs == MapsOver(TopKeys, NestedValues)

MergedKeys_BaseOnly(base_config, override_config) == DOMAIN base_config

\* the keys of merged once the loop is over
MergedKeys(base_config, override_config) == DOMAIN base_config \cup DOMAIN override_config

BothMappings_Never(base_config, override_config, key) == FALSE

\* key in merged and isinstance(merged[key], dict) and isinstance(value, dict)
BothMappings(base_config, override_config, key) ==
    /\ key \in DOMAIN base_config
    /\ base_config[key].kind = "m"
    /\ override_config[key].kind = "m"

\* merged = base_config.copy() followed by the loop over override_config.items()
RECURSIVE MergeLoop(_, _)
MergeLoop(base_config, override_config) ==
    [k \in MergedKeys(base_config, override_config) |->
        IF k \notin DOMAIN override_config THEN base_config[k]
        ELSE IF BothMappings(base_config, override_config, k)
             THEN Mapping(MergeLoop(base_config[k].val, override_config[k].val))
             ELSE override_config[k]]

\* merge_configs; override_config is << >> (None) or <<mapping>>
MergeConfigs(base_config, override_config) ==
    IF override_config = << >> THEN base_config
    ELSE MergeLoop(base_config, override_config[1])

\* ---- validate_env_config
RequiredMaxParams ==
    <<"MAX_HOSTS", "MAX_PROCESSES", "MAX_CONNECTIONS", "MAX_VULNERABILITIES",
      "MAX_INTERFACES", "MAX_SESSIONS", "MAX_USERS">>

\* isinstance(value, int): bool is a subclass of int
IsInstanceInt(v) == v.kind \in {"int", "bool"}

\* the integer a value compares as: True is 1, False is 0
IntOf(v) == IF v.kind = "bool" THEN (IF v.val THEN 1 ELSE 0) ELSE v.val

RECURSIVE ValidateFrom(_, _)
ValidateFrom(keys, max_params) ==
    IF keys = << >> THEN [status |-> "ok", error |-> "none", key |-> "none"]
    ELSE IF Head(keys) \notin DOMAIN max_params
         THEN [status |-> "raise", error |-> "missing", key |-> Head(keys)]
    ELSE IF ~IsInstanceInt(max_params[Head(keys)]) \/ IntOf(max_params[Head(keys)]) < 0
         THEN [status |-> "raise", error |-> "invalid", key |-> Head(keys)]
    ELSE ValidateFrom(Tail(keys), max_params)

\* validate_env_config: True, or the ValueError and the key it names
ValidateEnvConfig(env_config) ==
    IF "max_params" \notin DOMAIN env_config
    THEN [status |-> "raise", error |-> "missing", key |-> "max_params"]
    ELSE ValidateFrom(RequiredMaxParams, env_config["max_params"])

\* max_params maps that deviate from a valid one at no more than MaxBadKeys
\* keys: key absent, negative, boolean, float, text, null, or another bound
ValidMaxParams == [k \in Range(RequiredMaxParams) |-> PyInt(5)]
Deviations == {PyInt(-1), PyInt(0), PyBool(TRUE), PyBool(FALSE), PyFloat(1, 0),
               PyString("10"), PyNone}
Deviate(max_params, changed, absent) ==
    [k \in DOMAIN max_params \ absent |->
        IF k \in DOMAIN changed THEN changed[k] ELSE max_params[k]]
MaxParamsChoices ==
    {Deviate(ValidMaxParams, ch, ab) :
        ch \in UNION {[ks -> Deviations] :
                        ks \in {t \in SUBSET Range(RequiredMaxParams) : Cardinality(t) <= MaxBadKeys}},
        ab \in {t \in SUBSET Range(RequiredMaxParams) : Cardinality(t) <= 1}}
EnvConfigs ==
    {[fully_obs |-> PyBool(FALSE)]}
    \cup {[max_params |-> m] : m \in {mp \in MaxParamsChoices :
            Cardinality({k \in Range(RequiredMaxParams) :
                            k \notin DOMAIN mp \/ mp[k] # PyInt(5)}) <= MaxBadKeys}}

\* ---- env_factory.py: get_observation_size
MaxParam == 2        \* bounds explored are 0..MaxParam
MaxObsCalls == 2     \* calls of get_observation_size on the same argument

\* _get_default_env_config()["max_params"]
DefaultMaxParams ==
    [MAX_HOSTS |-> PyInt(5), MAX_PROCESSES |-> PyInt(2), MAX_CONNECTIONS |-> PyInt(2),
     MAX_VULNERABILITIES |-> PyInt(1), MAX_INTERFACES |-> PyInt(2),
     MAX_SESSIONS |-> PyInt(3), MAX_USERS |-> PyInt(5), MAX_FILES |-> PyInt(0),
     MAX_GROUPS |-> PyInt(0), MAX_PATCHES |-> PyInt(0)]

\* env_config.get("max_params", default)
MaxParamsOf(env_config) ==
    IF "max_params" \in DOMAIN env_config THEN env_config["max_params"]
    ELSE DefaultMaxParams

ObservationSize_Flat(max_params) ==
    max_params["MAX_HOSTS"].val * 1
    + max_params["MAX_PROCESSES"].val * 4
    + max_params["MAX_CONNECTIONS"].val * 3
    + max_params["MAX_VULNERABILITIES"].val * 2
    + max_params["MAX_INTERFACES"].val * 4
    + max_params["MAX_SESSIONS"].val * 3
    + max_params["MAX_USERS"].val * 2

\* the size expression of get_observation_size
ObservationSize(max_params) ==
    max_params["MAX_HOSTS"].val * (
        1
        + max_params["MAX_PROCESSES"].val * 4
        + max_params["MAX_CONNECTIONS"].val * 3
        + max_params["MAX_VULNERABILITIES"].val * 2
        + max_params["MAX_INTERFACES"].val * 4
        + max_params["MAX_SESSIONS"].val * 3
        + max_params["MAX_USERS"].val * 2)

GetObservationSize(env_config) == ObservationSize(MaxParamsOf(env_config))

BoundsMaps == [Range(RequiredMaxParams) -> {PyInt(n) : n \in 0..MaxParam}]
ObsEnvConfigs ==
    {[fully_obs |-> PyBool(FALSE)]} \cup {[max_params |-> m] : m \in BoundsMaps}

\* ---- env_factory.py: create_cyborg_environment
MaxEnvs == 2         \* largest n_envs explored

\* _get_default_env_config()
DefaultEnvConfig ==
    [fully_obs |-> PyBool(FALSE), randomize_env |-> PyBool(FALSE),
     max_params |-> DefaultMaxParams]

\* env_config is << >> (None) or <<mapping>>
EnvConfigOrDefault(env_config) ==
    IF env_config = << >> THEN DefaultEnvConfig ELSE env_config[1]

\* if not scenario_file.exists(): raise FileNotFoundError
ScenarioCheck(scenario_exists) ==
    IF scenario_exists THEN "ok" ELSE "FileNotFoundError"

\* _make_env: the simulator is created first, then the wrappers;
\* env_config["max_params"] raises KeyError when the key is absent
MakeEnv(env_config) ==
    IF "max_params" \in DOMAIN env_config THEN "ok" ELSE "KeyError"

\* make_vec_env(_make_env, n_envs=n_envs): one _make_env call per index of
\* range(n_envs); the vectorized environment of an empty list raises
\* IndexError before any call
MakeVecEnv(env_config, n) ==
    IF n < 1 THEN [status |-> "raise", error |-> "IndexError", instances |-> 0]
    ELSE IF MakeEnv(env_config) # "ok"
         THEN [status |-> "raise", error |-> MakeEnv(env_config), instances |-> 1]
    ELSE [status |-> "ok", error |-> "none", instances |-> n]

\* create_cyborg_environment; instances counts the CybORG objects created
CreateCybORGEnvironment(scenario_exists, env_config, n) ==
    IF ScenarioCheck(scenario_exists) # "ok"
    THEN [status |-> "raise", error |-> ScenarioCheck(scenario_exists), instances |-> 0]
    ELSE MakeVecEnv(EnvConfigOrDefault(env_config), n)

EnvCountChoices == -1..MaxEnvs
EnvConfigArgs ==
    {<< >>, << << >> >>, <<[fully_obs |-> PyBool(TRUE)]>>,
     <<[max_params |-> ValidMaxParams]>>}

CfCall(fn, a, b, c) == [fn |-> fn, pc |-> "args", a |-> a, b |-> b, c |-> c, out |-> << >>]

CfInit ==
    /\ \/ cf \in {CfCall("merge", a, b, << >>) :
                    a \in NestedConfigs, b \in {<< >>} \cup {<<o>> : o \in NestedConfigs}}
       \/ cf \in {CfCall("merge3", a, b, c) :
                    a \in NestedConfigs, b \in NestedConfigs, c \in NestedConfigs}
       \/ cf \in {CfCall("validate", e, << >>, << >>) : e \in EnvConfigs}
       \/ cf \in {CfCall("observation_size", e, << >>, << >>) : e \in ObsEnvConfigs}
       \/ cf \in {CfCall("create_environment", e, ex, n) :
                    e \in EnvConfigArgs, ex \in BOOLEAN, n \in EnvCountChoices}
    /\ sm = "off"
    /\ ln = "off"
    /\ bd = "off"
    /\ tr = "off"
    /\ CkptOff

\* merge_configs(base_config, override_config)
CfMerge ==
    /\ cf.fn = "merge" /\ cf.pc = "args"
    /\ cf' = [cf EXCEPT !.pc = "done", !.out = MergeConfigs(cf.a, cf.b)]
    /\ UNCHANGED <<ckptVars, sm, ln, bd, tr>>

\* three layers merged in precedence order, grouped either way
CfMergeThree ==
    /\ cf.fn = "merge3" /\ cf.pc = "args"
    /\ cf' = [cf EXCEPT
                !.pc = "done",
                !.out = [left  |-> MergeConfigs(MergeConfigs(cf.a, <<cf.b>>), <<cf.c>>),
                         right |-> MergeConfigs(cf.a, <<MergeConfigs(cf.b, <<cf.c>>)>>)]]
    /\ UNCHANGED <<ckptVars, sm, ln, bd, tr>>

\* validate_env_config(env_config)
CfValidate ==
    /\ cf.fn = "validate" /\ cf.pc = "args"
    /\ cf' = [cf EXCEPT !.pc = "done", !.out = ValidateEnvConfig(cf.a)]
    /\ UNCHANGED <<ckptVars, sm, ln, bd, tr>>

\* get_observation_size(env_config), called again on the same argument
CfObservationSize ==
    /\ cf.fn = "observation_size" /\ cf.pc = "args"
    /\ cf' = [cf EXCEPT
                !.pc = IF Len(cf.out) + 1 >= MaxObsCalls THEN "done" ELSE "args",
                !.out = Append(cf.out, GetObservationSize(cf.a))]
    /\ UNCHANGED <<ckptVars, sm, ln, bd, tr>>

\* create_cyborg_environment(scenario_path, mode, env_config, n_envs)
CfCreateEnvironment ==
    /\ cf.fn = "create_environment" /\ cf.pc = "args"
    /\ cf' = [cf EXCEPT !.pc = "done",
                        !.out = CreateCybORGEnvironment(cf.b, cf.a, cf.c)]
    /\ UNCHANGED <<ckptVars, sm, ln, bd, tr>>

CfNext ==
    \/ CfMerge
    \/ CfMergeThree
    \/ CfValidate
    \/ CfObservationSize
    \/ CfCreateEnvironment

CfSpec == CfInit /\ [][CfNext]_vars

Merged3 == cf.fn = "merge3" /\ cf.pc = "done"
Merged == cf.fn = "merge" /\ cf.pc = "done"
Validated == cf.fn = "validate" /\ cf.pc = "done"

IsMappingAt(config, k) == k \in DOMAIN config /\ config[k].kind = "m"
IsScalarAt(config, k) == k \in DOMAIN config /\ config[k].kind = "s"

\* C18 as stated: merge(merge(a, b), c) = merge(a, merge(b, c)) for all
\* nested mappings a, b, c.
C18_AssociativeAsStated ==
    Merged3 => cf.out.left = cf.out.right

\* a key at which the outer layers hold mappings and the middle layer holds
\* a non-mapping value
Shadowed(a, b, c) ==
    \E k \in DOMAIN a : IsMappingAt(a, k) /\ IsScalarAt(b, k) /\ IsMappingAt(c, k)

\* C18 (amended): merge(merge(a, b), c) = merge(a, merge(b, c)) for all
\* nested mappings a, b, c in which no key path has mappings in a and c and
\* a non-mapping value in b.
C18_AssociativeUnlessShadowed ==
    (Merged3 /\ ~Shadowed(cf.a, cf.b, cf.c)) => cf.out.left = cf.out.right

C18_Witness ==
    /\ Merged3
    /\ ~Shadowed(cf.a, cf.b, cf.c)
    /\ IsMappingAt(cf.a, "p") /\ IsMappingAt(cf.b, "p") /\ IsMappingAt(cf.c, "p")
    /\ cf.a["p"].val # cf.c["p"].val
    /\ IsScalarAt(cf.a, "q") /\ IsMappingAt(cf.b, "q") /\ "q" \notin DOMAIN cf.c
    /\ cf.out.left = cf.out.right
    /\ cf.out.left["p"] = cf.c["p"]
    /\ cf.out.left["q"] = cf.b["q"]

\* C19: for each key of merge_configs(base, override): the override's
\* value when the key is only in the override or either side holds a
\* non-mapping; the base's value when the key is only in the base; the
\* recursive merge of the two when both hold mappings; without an override
\* the result equals the base.
C19_PerKeySemantics ==
    Merged =>
        IF cf.b = << >> THEN cf.out = cf.a
        ELSE LET base == cf.a
                 over == cf.b[1]
             IN  /\ DOMAIN cf.out = DOMAIN base \cup DOMAIN over
                 /\ \A k \in DOMAIN cf.out :
                       IF k \notin DOMAIN over THEN cf.out[k] = base[k]
                       ELSE IF k \notin DOMAIN base THEN cf.out[k] = over[k]
                       ELSE IF base[k].kind = "s" \/ over[k].kind = "s"
                            THEN cf.out[k] = over[k]
                       ELSE /\ cf.out[k].kind = "m"
                            /\ DOMAIN cf.out[k].val = DOMAIN base[k].val \cup DOMAIN over[k].val
                            /\ \A x \in DOMAIN cf.out[k].val :
                                  cf.out[k].val[x] = IF x \in DOMAIN over[k].val
                                                     THEN over[k].val[x] ELSE base[k].val[x]

C19_Witness ==
    /\ Merged
    /\ cf.b # << >>
    /\ IsMappingAt(cf.a, "p") /\ IsMappingAt(cf.b[1], "p")
    /\ DOMAIN cf.a["p"].val = {"x"} /\ DOMAIN cf.b[1]["p"].val = {}
    /\ IsMappingAt(cf.a, "q") /\ IsScalarAt(cf.b[1], "q")
    /\ cf.out["p"] = cf.a["p"]
    /\ cf.out["q"] = cf.b[1]["q"]

NonNegativeInteger(v) == v.kind = "int" /\ v.val >= 0

\* C20: validate_env_config raises an error naming the offending key
\* whenever max_params lacks one of the seven required keys or holds for
\* one of them a value that is not an integer >= 0 (negative integers,
\* booleans, floats, strings, null), and succeeds only when all seven are
\* present with an integer >= 0.
C20_RejectsAllButNonNegativeIntegers ==
    (Validated /\ "max_params" \in DOMAIN cf.a) =>
        LET mp == cf.a["max_params"]
            offending == {k \in Range(RequiredMaxParams) :
                             k \notin DOMAIN mp \/ ~NonNegativeInteger(mp[k])}
        IN  /\ cf.out.status = "ok" <=> offending = {}
            /\ cf.out.status = "raise" => cf.out.key \in offending

\* ======================================================================
\* CheckpointCallback / LatestCheckpointCallback: replication and glob
\* ======================================================================
\* C24: in every hook, periodic or final, upload_file is called at most
\* once, and only when the local save of that hook's checkpoint has
\* completed (the file is on disk, the newest one); a call that fails is
\* not repeated, and a hook whose save failed makes no call.
C24_ReplicateOnceAfterSave ==
    /\ Len(upload_log) <= 1
    /\ upload_log # << >> =>
          /\ op \in {"ckpt_step", "train_end"}
          /\ s3_enabled
          /\ saved_path # << >>
          /\ disk # << >>
          /\ disk[Len(disk)] = saved_path[1]
    /\ fail_site \in {"save", "final_save"} => upload_log = << >>
    /\ (saved_path # << >> /\ s3_enabled) => Len(upload_log) = 1

C24_Witness ==
    /\ op = "train_end"
    /\ upload_log = <<"error">>
    /\ saved_path = <<FinalCheckpointPath(name_prefix)>>
    /\ hook_ret = "true"
    /\ last_periodic_step > 0

\* C30: for every name_prefix of CheckpointCallback, the files an eviction
\* pass considers (the glob's matches) are exactly the periodic checkpoints
\* in the directory: each of them is considered and no other file is.
C30_GlobMatchesPeriodicCheckpoints ==
    op = "evict" => Range(SortedCheckpoints(pre_disk)) = Periodic(pre_disk)

\* ======================================================================
\* SageMakerCallback: the episode counter
\* ======================================================================
\* C29: in every state of SageMakerCallback episode_count is the length of
\* episode_rewards and of episode_lengths, and the episode_number values
\* printed so far are 1, 2, 3, ... in the order printed, without gap or
\* repeat, also when several environments finish at the same step.
C29_CounterMatchesLists ==
    /\ sm.episode_count = Len(sm.episode_rewards)
    /\ sm.episode_count = Len(sm.episode_lengths)
    /\ Len(sm.numbers) = sm.episode_count
    /\ \A i \in DOMAIN sm.numbers : sm.numbers[i] = i

C29_Witness ==
    /\ sm.n_envs = 2
    /\ DoneCount(sm.dones) = 2
    /\ sm.numbers = <<1, 2, 3>>
    /\ EpisodeNumbers(sm.out) = <<2, 3>>
    /\ sm.episode_count = 3

\* ======================================================================
\* launch_training.py: the metric patterns of the descriptor
\* ======================================================================
MetricNames(definitions) == {definitions[i].Name : i \in DOMAIN definitions}

\* C26: for every supported algorithm the descriptor's metric definitions
\* hold a pattern for each of the four metrics that SageMakerCallback prints
\* for every finished episode.
C26_PatternsForRequiredMetrics ==
    Built => RequiredMetrics \subseteq
                MetricNames(bd.config.AlgorithmSpecification.MetricDefinitions)

\* ======================================================================
\* env_factory.py: get_observation_size
\* ======================================================================
\* field count of one entity of a type
FieldCount(type) ==
    CASE type = "MAX_HOSTS" -> 1
      [] type = "MAX_PROCESSES" -> 4
      [] type = "MAX_CONNECTIONS" -> 3
      [] type = "MAX_VULNERABILITIES" -> 2
      [] type = "MAX_INTERFACES" -> 4
      [] type = "MAX_SESSIONS" -> 3
      [] type = "MAX_USERS" -> 2

RECURSIVE SumOver(_, _)
SumOver(types, B) ==
    IF types = << >> THEN 0
    ELSE B[Head(types)].val * FieldCount(Head(types)) + SumOver(Tail(types), B)

Sized == cf.fn = "observation_size" /\ cf.out # << >>

\* C21 as stated: the result is the sum, over the bounded entity types, of
\* the type's bound times the type's field count.
C21_SumOfBoundTimesFields ==
    Sized => \A i \in DOMAIN cf.out :
                cf.out[i] = SumOver(RequiredMaxParams, MaxParamsOf(cf.a))

\* C21 (amended): the result is the host bound times (1 + the sum, over the
\* six per-host entity types, of the type's bound times the type's field
\* count); it is a function of the bounds only and repeated calls give the
\* same length.
C21_HostsTimesPerHostFields ==
    Sized =>
        LET B == MaxParamsOf(cf.a)
        IN  \A i \in DOMAIN cf.out :
               cf.out[i] = B["MAX_HOSTS"].val * (1 + SumOver(Tail(RequiredMaxParams), B))

C21_Witness ==
    /\ cf.fn = "observation_size"
    /\ cf.pc = "done"
    /\ "max_params" \in DOMAIN cf.a
    /\ cf.a["max_params"]["MAX_HOSTS"] = PyInt(2)
    /\ cf.a["max_params"]["MAX_PROCESSES"] = PyInt(1)
    /\ cf.a["max_params"]["MAX_USERS"] = PyInt(2)
    /\ cf.out = <<46, 46>>

\* ======================================================================
\* env_factory.py: create_cyborg_environment
\* ======================================================================
Created == cf.fn = "create_environment" /\ cf.pc = "done"

\* the errors create_cyborg_environment raises itself
EnvironmentBuildErrors == {"FileNotFoundError"}

\* C22: create_cyborg_environment fails with an environment-build error,
\* before any simulator instance is created, whenever the scenario file
\* cannot be located or n_envs < 1.
C22_FailsBeforeAnyInstance ==
    (Created /\ (~cf.b \/ cf.c < 1)) =>
        /\ cf.out.status = "raise"
        /\ cf.out.instances = 0
        /\ cf.out.error \in EnvironmentBuildErrors

\* ================================================================ train.py
\* The training entry point as the platform starts it from a descriptor:
\* HyperParameters arrive as command-line options "--key value", the
\* Environment map as environment variables, the config and scenario
\* channels as files under /opt/ml/input/data.

\* Algorithms.ALL, the choices of --algorithm
AlgorithmsAll == {"drqn", "dqn", "ppo", "recurrent_ppo"}

\* algorithm_trainers in main()
AlgorithmTrainers == [drqn |-> "train_drqn"]

\* int(text) as argparse applies it; << >> when it raises ValueError
ParseInt(text) ==
    CASE text = "0"      -> <<0>>
      [] text = "1"      -> <<1>>
      [] text = "2"      -> <<2>>
      [] text = "500000" -> <<500000>>
      [] OTHER           -> << >>

\* the value of option --key, or its default
Option(argv, key, default) == IF key \in DOMAIN argv THEN argv[key].val ELSE default

\* parse_args(): exit status 2 when a required option is missing, a choice
\* is not among the choices or an int does not parse; unknown options are
\* ignored (parse_known_args)
ParseArgs(argv) ==
    IF \/ \E k \in {"algorithm", "scenario_name", "total_steps"} : k \notin DOMAIN argv
       \/ Option(argv, "algorithm", "drqn") \notin AlgorithmsAll
       \/ Option(argv, "environment_mode", "sim") \notin {"sim", "aws"}
       \/ ParseInt(Option(argv, "total_steps", "1")) = << >>
       \/ ParseInt(Option(argv, "n_envs", "1")) = << >>
    THEN [status |-> "raise", error |-> "SystemExit"]
    ELSE [status |-> "ok",
          args |-> [algorithm        |-> argv["algorithm"].val,
                    environment_mode |-> Option(argv, "environment_mode", "sim"),
                    scenario_name    |-> argv["scenario_name"].val,
                    total_steps      |-> ParseInt(argv["total_steps"].val)[1],
                    n_envs           |-> ParseInt(Option(argv, "n_envs", "1"))[1]]]

\* extract_env_config(full_config)
ExtractEnvConfig(full_config) ==
    [k \in DOMAIN full_config \cap {"fully_obs", "randomize_env", "max_params"} |->
        full_config[k]]

\* env_config as main() assigns it; config_file is << >> (no such file) or
\* <<mapping>>
LoadEnvConfig(config_file) ==
    IF config_file # << >> THEN ExtractEnvConfig(config_file[1]) ELSE << >>

\* ---- launches and containers explored
\* --hyperparameters given at launch for scenario sc and mode m
TrOverrides(sc, m) ==
    {<< >>,
     [scenario_name |-> PyString(sc)],
     [scenario_name |-> PyString(sc), environment_mode |-> PyString(m)],
     [scenario_name |-> PyString(sc), n_envs |-> PyString("0")],
     [scenario_name |-> PyString(sc), n_envs |-> PyString("2")],
     [scenario_name |-> PyString(sc), algorithm |-> PyString("a2c")]}

\* the 'hyperparameters' section of <algorithm>.yaml
TrAlgorithmConfigs == {<< >>, [gamma |-> PyFloat(0, 5)]}

NegativeHosts == Deviate(ValidMaxParams, [MAX_HOSTS |-> PyInt(-1)], {})

\* <algorithm>.yaml in the config channel: absent, without max_params, with
\* valid bounds, with a negative bound
TrConfigFiles(ac) ==
    {<< >>,
     <<[hyperparameters |-> ac]>>,
     <<[hyperparameters |-> ac, fully_obs |-> PyBool(TRUE)]>>,
     <<[hyperparameters |-> ac, max_params |-> ValidMaxParams]>>,
     <<[hyperparameters |-> ac, max_params |-> NegativeHosts]>>}

TrStart(a, sc, m, hp, ac, file, files) ==
    [pc |-> "start",
     launch |-> [algorithm |-> a, scenario |-> sc, environment_mode |-> m,
                 hyperparameters |-> hp],
     argv |-> BuildTrainingJobConfig("job", a, 500000, sc, FALSE, << >>, hp, m, ac,
                                     VpcConfigOf(m)).HyperParameters,
     environ |-> BuildTrainingJobConfig("job", a, 500000, sc, FALSE, << >>, hp, m, ac,
                                        VpcConfigOf(m)).Environment,
     config_file |-> file, scenario_files |-> files,
     args |-> << >>, env_config |-> << >>, instances |-> 0, env_built |-> FALSE,
     callbacks |-> 0, checkpoint_dir |-> FALSE, trainer |-> "none",
     model_saved |-> FALSE, error |-> "none"]

TrInit ==
    /\ tr \in UNION {{TrStart(a, sc, m, hp, ac, file, files) :
                        a \in ValidAlgorithms, hp \in TrOverrides(sc, m),
                        file \in TrConfigFiles(ac), files \in SUBSET Scenarios} :
                     sc \in Scenarios, m \in EnvironmentModes, ac \in TrAlgorithmConfigs}
    /\ sm = "off"
    /\ ln = "off"
    /\ bd = "off"
    /\ cf = "off"
    /\ CkptOff

TrFail(error) == tr' = [tr EXCEPT !.pc = "failed", !.error = error]

\* args = parse_args()
TrParseArgs ==
    /\ tr.pc = "start"
    /\ LET r == ParseArgs(tr.argv) IN
         IF r.status = "ok"
         THEN tr' = [tr EXCEPT !.pc = "config", !.args = r.args]
         ELSE TrFail(r.error)
    /\ UNCHANGED <<ckptVars, sm, ln, bd, cf>>

\* the configuration block: env_config from the file, or {} without one
TrLoadConfig ==
    /\ tr.pc = "config"
    /\ tr' = [tr EXCEPT !.pc = "scenario", !.env_config = <<LoadEnvConfig(tr.config_file)>>]
    /\ UNCHANGED <<ckptVars, sm, ln, bd, cf>>

\* if not scenario_path.exists(): raise FileNotFoundError
TrCheckScenario ==
    /\ tr.pc = "scenario"
    /\ IF tr.args.scenario_name \in tr.scenario_files
       THEN tr' = [tr EXCEPT !.pc = "create"]
       ELSE TrFail("FileNotFoundError")
    /\ UNCHANGED <<ckptVars, sm, ln, bd, cf>>

\* env = create_cyborg_environment(..., env_config=env_config, n_envs=args.n_envs)
TrCreateEnvironment ==
    /\ tr.pc = "create"
    /\ LET r == CreateCybORGEnvironment(tr.args.scenario_name \in tr.scenario_files,
                                        tr.env_config, tr.args.n_envs) IN
         IF r.status = "ok"
         THEN tr' = [tr EXCEPT !.pc = "callbacks", !.instances = r.instances,
                               !.env_built = TRUE]
         ELSE tr' = [tr EXCEPT !.pc = "failed", !.error = r.error,
                               !.instances = r.instances]
    /\ UNCHANGED <<ckptVars, sm, ln, bd, cf>>

\* callbacks = [SageMakerCallback, CheckpointCallback]; the constructor of
\* the latter creates the checkpoint directory
TrSetupCallbacks ==
    /\ tr.pc = "callbacks"
    /\ tr' = [tr EXCEPT !.pc = "dispatch", !.callbacks = 2, !.checkpoint_dir = TRUE]
    /\ UNCHANGED <<ckptVars, sm, ln, bd, cf>>

\* if args.algorithm not in algorithm_trainers: raise NotImplementedError
TrDispatch ==
    /\ tr.pc = "dispatch"
    /\ IF tr.args.algorithm \in DOMAIN AlgorithmTrainers
       THEN tr' = [tr EXCEPT !.pc = "train", !.trainer = AlgorithmTrainers[tr.args.algorithm]]
       ELSE TrFail("NotImplementedError")
    /\ UNCHANGED <<ckptVars, sm, ln, bd, cf>>

\* model = trainer(env, args, callbacks); an exception is logged and raised
TrTrain ==
    /\ tr.pc = "train"
    /\ \E raised \in BOOLEAN :
         IF raised THEN TrFail("TrainingError") ELSE tr' = [tr EXCEPT !.pc = "save"]
    /\ UNCHANGED <<ckptVars, sm, ln, bd, cf>>

\* model.save(...) and metadata.json
TrSave ==
    /\ tr.pc = "save"
    /\ \E raised \in BOOLEAN :
         IF raised THEN TrFail("SaveError")
         ELSE tr' = [tr EXCEPT !.pc = "done", !.model_saved = TRUE]
    /\ UNCHANGED <<ckptVars, sm, ln, bd, cf>>

TrNext ==
    \/ TrParseArgs
    \/ TrLoadConfig
    \/ TrCheckScenario
    \/ TrCreateEnvironment
    \/ TrSetupCallbacks
    \/ TrDispatch
    \/ TrTrain
    \/ TrSave

TrSpec == TrInit /\ [][TrNext]_vars

\* ---- claims on the training entry flow
\* the run stopped because of the algorithm identifier: parse_args refused
\* the choice, or main() found no trainer for it
AlgorithmRejected ==
    /\ tr.pc = "failed"
    /\ \/ tr.error = "NotImplementedError"
       \/ tr.error = "SystemExit" /\ Option(tr.argv, "algorithm", "drqn") \notin AlgorithmsAll

\* C23: an algorithm identifier the run cannot proceed with is rejected
\* before any resource is allocated: no environment has been built and no
\* checkpoint directory or callback has been created when it is rejected.
C23_RejectedBeforeAllocation ==
    AlgorithmRejected =>
        /\ ~tr.env_built /\ tr.instances = 0
        /\ ~tr.checkpoint_dir /\ tr.callbacks = 0

\* C25: a training process started from a descriptor built without
\* per-launch overrides receives every option parse_args requires and runs
\* on the scenario and environment mode chosen at launch.
C25_DescriptorFeedsParseArgs ==
    (tr.launch.hyperparameters = << >> /\ tr.pc # "start") =>
        /\ tr.args # << >>
        /\ tr.args.scenario_name = tr.launch.scenario
        /\ tr.args.environment_mode = tr.launch.environment_mode

\* the configuration file is absent or carries no max_params
NoBoundsConfigured ==
    tr.config_file = << >> \/ "max_params" \notin DOMAIN tr.config_file[1]

\* C27: the environment is built only from an env config satisfying the
\* resource-bounds invariant; without a configuration file, or without
\* max_params in it, the flow uses the built-in default bounds or fails with
\* a validation error before any simulator instance is created.
C27_BuildsOnlyFromValidBounds ==
    /\ tr.instances > 0 =>
           ValidateEnvConfig(EnvConfigOrDefault(tr.env_config)).status = "ok"
    /\ (NoBoundsConfigured /\ tr.pc = "failed" /\ tr.env_config # << >>
        /\ tr.error \notin {"FileNotFoundError", "IndexError"}) =>
           tr.instances = 0 /\ tr.error = "ValueError"

\* C28: every identifier both the launcher and parse_args accept is
\* dispatched to a trainer; none of them stops the flow after the
\* environment has been built.
C28_AcceptedAlgorithmDispatches ==
    (tr.env_built /\ tr.launch.algorithm \in ValidAlgorithms \cap AlgorithmsAll
     /\ tr.args.algorithm = tr.launch.algorithm /\ tr.pc \in {"failed", "train", "save", "done"}) =>
        /\ tr.trainer # "none"
        /\ tr.error # "NotImplementedError"

====
